---- MODULE Spec2Model ----
(***************************************************************************)
(* Model of the UDP relay's Router (src/main.go): the tag -> Component     *)
(* registry, the registry lock, the buffer pool, packet dispatch (Route),  *)
(* lifecycle control (StartAll / StopAll) and main's startup sequence.     *)
(*                                                                         *)
(* The Listener and Forwarder components are not part of src/main.go; the  *)
(* little of them the Router relies on (GetTag, the outcome of Start, Stop *)
(* and HandlePacket, the worker a started component runs) is modelled from *)
(* spec.md and is marked as such where it is defined.                      *)
(***************************************************************************)
EXTENDS Integers, Sequences, FiniteSets, TLC

(* ------------------------------ bounds --------------------------------- *)

\* Longest config.Services list main iterates over.
MaxServices == 2

\* Longest destTags list handed to Route.
MaxDest == 3

\* Number of buffers the pool's New function may allocate.
MaxBufs == 2

(* ------------------------------ inputs --------------------------------- *)

\* Values of ComponentConfig.Tag; "" is the empty tag.
Tags == {"", "x", "y"}

\* Values of ComponentConfig.Type; "other" stands for every unknown type.
Types == {"listen", "forward", "other"}

\* Every service entry main may read from the configuration.
AllCfgs == [type : Types, tag : Tags]

\* A configuration's entries for a Listener "x" and a Forwarder "y".
RouteCfgs == {[type |-> "listen", tag |-> "x"], [type |-> "forward", tag |-> "y"]}

\* Tags that may occur in a destTags list or as packet.srcTag; "z" is never
\* registered.
DestTags == {"x", "y", "z"}

\* Sequences over S of length at most n.
SeqsUpTo(S, n) == UNION {[1..k -> S] : k \in 0..n}

\* config.BufferSize, the length of the buffers the pool's New allocates.
BufferSize == 2

\* Lengths of the slice a caller may hand to PutBuffer: a buffer obtained from
\* GetBuffer, resliced or not.
PutLens == 0..BufferSize

\* ComponentConfig.QueueSize of the Forwarder.
QueueSize == 2

\* ComponentConfig.ReconnectInterval of the Forwarder, in ticks of the clock.
ReconnectInterval == 2

\* Payloads of the packets handed to the Forwarder.
Payloads == {"a", "b"}

\* A nil error.
Nil == "nil"

\* No buffer.
NoBuf == 0

\* The goroutines that take the registry lock.
MainProc == <<"main", 0>>
StopProc == <<"stop", 0>>
WorkerProc(w) == <<"worker", w>>

VARIABLES
    mainPc,       \* position of main
    services,     \* the entries of config.Services main has iterated over
    regLog,       \* per iterated entry: what the loop body did with it
    components,   \* Router.components: tag -> component
    mu,           \* Router.mu: the writer flag and the set of read holders
    startVisited, \* tags StartAll's range loop has visited
    startCount,   \* per component: number of Start calls made on it
    started,      \* components whose Start returned nil
    startAllErr,  \* what StartAll returned: "none" (not yet), Nil or the failing tag
    route,        \* per worker: the Route call it is in
    handled,      \* whether HandlePacket has been invoked through Route so far
    pool,         \* Router.bufferPool: per allocated buffer, entries held by the pool
    allocated,    \* number of buffers New has allocated
    wbuf,         \* per worker: the buffer it holds, or NoBuf
    buflen,       \* per buffer: the length of the slice last got from or put into the pool
    reused,       \* whether GetBuffer has handed out a buffer that had been given back
    stopPc,       \* position of the StopAll caller
    stopVisited,  \* tags StopAll's range loop has visited
    stopCount,    \* per component: number of Stop calls made on it
    stopErrs,     \* components whose Stop returned an error
    fwd,          \* a Forwarder: connection state, outbound queue, timers
    upstream,     \* whether the Forwarder's upstream is reachable
    reader        \* a Listener read loop routing its datagrams to the Forwarder

vars == <<mainPc, services, regLog, components, mu, startVisited, startCount,
          started, startAllErr, route, handled, pool, allocated, wbuf, buflen,
          reused, stopPc, stopVisited, stopCount, stopErrs, fwd, upstream, reader>>

mainVars  == <<mainPc, services, regLog, components, startVisited, startCount,
               started, startAllErr>>
routeVars == <<route, handled>>
poolVars  == <<pool, allocated, wbuf, buflen, reused>>
stopVars  == <<stopPc, stopVisited, stopCount, stopErrs>>
fwdVars   == <<fwd, upstream, reader>>

\* A component is identified by the index of the service entry it was built from.
Comps == 1..MaxServices

\* Buffers are identified by their allocation number.
Bufs == 1..MaxBufs

(* ------------------------- components (from spec.md) -------------------- *)

\* Component.GetTag: the tag of the entry the component was constructed from.
GetTag(c) == services[c].tag

(* ------------------------------- Router -------------------------------- *)

\* The registry of a new Router.
NoComponents == [t \in {} |-> 0]

\* Register with a duplicate tag overwriting the entry (the test of line 83 lost).
RegisterOverwrite(comps, c, tag) ==
    IF tag = ""
    THEN [err |-> "empty", components |-> comps]
    ELSE [err |-> Nil,
          components |-> [t \in DOMAIN comps \cup {tag} |->
                             IF t = tag THEN c ELSE comps[t]]]

\* Register without the empty-tag test of line 79.
RegisterEmptyTag(comps, c, tag) ==
    IF tag \in DOMAIN comps
    THEN [err |-> "dup", components |-> comps]
    ELSE [err |-> Nil, components |-> comps @@ (tag :> c)]

\* Router.Register on registry comps: the error returned and the registry after.
Register(comps, c, tag) ==
    IF tag = ""
    THEN [err |-> "empty", components |-> comps]
    ELSE IF tag \in DOMAIN comps
         THEN [err |-> "dup", components |-> comps]
         ELSE [err |-> Nil, components |-> comps @@ (tag :> c)]

\* Every reader excluding every other one, as with a plain Mutex.
CanRLockExclusive(m) == ~m.writer /\ m.readers = {}

\* sync.RWMutex.RLock (lines 93, 121, 135) is granted at once: no writer holds
\* the lock (none is ever waiting while a reader arrives, see MainConstruct).
CanRLock(m) == ~m.writer

\* sync.RWMutex.Lock (line 75) is granted at once: nobody holds the lock.
CanLock(m) == ~m.writer /\ m.readers = {}

\* GetComponent returning with the read lock still held.
GetComponentKeepsLock(m, p) == m

\* GetComponent's RLock (line 93), by goroutine p.
GetComponentRLock(m, p) == [m EXCEPT !.readers = @ \cup {p}]

\* GetComponent's deferred RUnlock (line 94), by goroutine p.
GetComponentRUnlock(m, p) == [m EXCEPT !.readers = @ \ {p}]

\* Router.GetComponent's result on registry comps.
GetComponent(comps, tag) ==
    IF tag \in DOMAIN comps
    THEN [c |-> comps[tag], exists |-> TRUE]
    ELSE [c |-> 0, exists |-> FALSE]

\* Route's test of line 102 dropped: no entry is skipped.
RouteSkipsNothing(tag, srcTag) == FALSE

\* Route's test of line 102: the entry is skipped.
RouteSkips(tag, srcTag) == tag = srcTag

\* Route's return value (line 116), failed telling whether a HandlePacket call
\* returned an error.
RouteResult(failed) == Nil

\* A worker that is in no Route call.
IdleRoute == [pc |-> "idle", src |-> "", dest |-> <<>>, i |-> 0, calls |-> <<>>,
              pending |-> 0, failed |-> FALSE, ret |-> "none"]

\* HandlePacket started in a goroutine of its own: Route goes on at once.
InvokeHandlePacketAsync(r, tag) ==
    [r EXCEPT !.calls = Append(@, tag), !.pending = @ + 1, !.i = @ + 1, !.pc = "loop"]

\* Route's call of line 112: HandlePacket is invoked on the component found under
\* tag and Route waits for it to return.
InvokeHandlePacket(r, tag) ==
    [r EXCEPT !.calls = Append(@, tag), !.pending = @ + 1, !.pc = "handling"]

\* Route's lines 107-110: the tag is not registered, the loop continues.
RouteOnMiss(r) == [r EXCEPT !.i = @ + 1, !.pc = "loop"]

\* Route giving up at the first HandlePacket error.
RouteOnReturnAborts(r, err) ==
    IF err = Nil
    THEN [r EXCEPT !.pending = @ - 1, !.i = @ + 1, !.pc = "loop"]
    ELSE [r EXCEPT !.pending = @ - 1, !.failed = TRUE, !.pc = "done", !.ret = Nil]

\* Route's lines 112-114: HandlePacket has returned err to a waiting Route; an
\* error is logged and the loop continues.
RouteOnReturn(r, err) ==
    [r EXCEPT !.pending = @ - 1,
              !.failed = @ \/ err # Nil,
              !.i = @ + 1,
              !.pc = "loop"]

\* A pool Get that hands out a pooled buffer without taking it out of the pool.
PoolGetKeeps(p, n) ==
    {[b |-> b, pool |-> p, allocated |-> n] : b \in {x \in Bufs : p[x] > 0}}
    \cup (IF n < MaxBufs THEN {[b |-> n + 1, pool |-> p, allocated |-> n + 1]} ELSE {})

\* sync.Pool.Get as used by GetBuffer: any pooled buffer is taken out of the pool,
\* or New allocates a fresh one (lines 55-58); the results it may produce.
PoolGet(p, n) ==
    {[b |-> b, pool |-> [p EXCEPT ![b] = @ - 1], allocated |-> n] :
        b \in {x \in Bufs : p[x] > 0}}
    \cup (IF n < MaxBufs THEN {[b |-> n + 1, pool |-> p, allocated |-> n + 1]} ELSE {})

\* sync.Pool.Put as used by PutBuffer (line 70).
PoolPut(p, b) == [p EXCEPT ![b] = @ + 1]

\* The length of the slice GetBuffer returns (line 65) when the pool hands out
\* buffer b: a buffer New has just made has config.BufferSize bytes (line 56), a
\* pooled one is the slice PutBuffer stored, of length stored.
GetBufferLen(fresh, stored) == IF fresh THEN BufferSize ELSE stored

(* -------------------------------- main --------------------------------- *)

\* The process is running: log.Fatalf has not ended it.
Alive == mainPc # "exited"

Init ==
    /\ mainPc = "construct"
    /\ services = <<>>
    /\ regLog = <<>>
    /\ components = NoComponents
    /\ mu = [writer |-> FALSE, readers |-> {}]
    /\ startVisited = {}
    /\ startCount = [c \in Comps |-> 0]
    /\ started = {}
    /\ startAllErr = "none"
    /\ route = [w \in Comps |-> IdleRoute]
    /\ handled = FALSE
    /\ pool = [b \in Bufs |-> 0]
    /\ allocated = 0
    /\ wbuf = [w \in Comps |-> NoBuf]
    /\ buflen = [b \in Bufs |-> 0]
    /\ reused = FALSE
    /\ stopPc = "idle"
    /\ stopVisited = {}
    /\ stopCount = [c \in Comps |-> 0]
    /\ stopErrs = {}
    /\ fwd = [state |-> "Disconnected", queue |-> <<>>, wait |-> 0, since |-> 0,
              dialled |-> FALSE, lost |-> FALSE]
    /\ upstream = TRUE
    /\ reader = [pc |-> "recv", pkt |-> "", dropped |-> FALSE]

\* main's switch treating every type as a known one.
KnownTypeAny(type) == TRUE

\* main's switch on cfg.Type (lines 175-183): a component is constructed.
KnownType(type) == type \in {"listen", "forward"}

\* One iteration of main's construction loop over an entry drawn from cfgs, up
\* to Register's Lock: an entry of unknown type is skipped; for any other one the
\* component is constructed and Register is entered, main being the only
\* goroutine there is.
MainConstruct(cfgs) ==
    /\ mainPc = "construct"
    /\ Len(services) < MaxServices
    /\ \E cfg \in cfgs :
         /\ services' = Append(services, cfg)
         /\ IF KnownType(cfg.type)
            THEN /\ CanLock(mu)
                 /\ mu' = [mu EXCEPT !.writer = TRUE]
                 /\ mainPc' = "register"
                 /\ regLog' = regLog
            ELSE /\ regLog' = Append(regLog, "unknown")
                 /\ UNCHANGED <<mu, mainPc>>
    /\ UNCHANGED <<components, startVisited, startCount, started, startAllErr>>
    /\ UNCHANGED <<routeVars, poolVars, stopVars, fwdVars>>

\* Register's body under the exclusive lock and its deferred Unlock; main only
\* logs the error Register returns and goes on with the next entry.
MainRegister ==
    /\ mainPc = "register"
    /\ LET c == Len(services)
           r == Register(components, c, GetTag(c))
       IN /\ components' = r.components
          /\ regLog' = Append(regLog, r.err)
    /\ mu' = [mu EXCEPT !.writer = FALSE]
    /\ mainPc' = "construct"
    /\ UNCHANGED <<services, startVisited, startCount, started, startAllErr>>
    /\ UNCHANGED <<routeVars, poolVars, stopVars, fwdVars>>

(* ------------------------------ StartAll ------------------------------- *)

\* Component.Start's possible results (from spec.md: binding or dialling may fail).
StartResults == {Nil, "error"}

\* StartAll going on to the next component whatever Start returned.
StartAllIgnoresError(err) == FALSE

\* StartAll's test of line 126: whether the loop returns after this Start result.
StartAllReturnsOn(err) == err # Nil

\* main leaves the construction loop (the list is exhausted) and calls StartAll,
\* which takes the read lock.
StartAllLock ==
    /\ mainPc = "construct"
    /\ CanRLock(mu)
    /\ mainPc' = "starting"
    /\ mu' = [mu EXCEPT !.readers = @ \cup {MainProc}]
    /\ UNCHANGED <<services, regLog, components, startVisited, startCount, started,
                   startAllErr>>
    /\ UNCHANGED <<routeVars, poolVars, stopVars, fwdVars>>

\* One iteration of StartAll's range loop, in the map's unspecified order: Start
\* is called on a component not yet visited; on an error StartAll returns it
\* (the deferred RUnlock runs) and main is left holding a fatal error.
StartAllStep ==
    /\ mainPc = "starting"
    /\ \E tag \in DOMAIN components \ startVisited : \E err \in StartResults :
         LET c == components[tag]
         IN /\ startVisited' = startVisited \cup {tag}
            /\ startCount' = [startCount EXCEPT ![c] = @ + 1]
            /\ started' = IF err = Nil THEN started \cup {c} ELSE started
            /\ IF StartAllReturnsOn(err)
               THEN /\ startAllErr' = tag
                    /\ mainPc' = "fatal"
                    /\ mu' = [mu EXCEPT !.readers = @ \ {MainProc}]
               ELSE UNCHANGED <<startAllErr, mainPc, mu>>
    /\ UNCHANGED <<services, regLog, components>>
    /\ UNCHANGED <<routeVars, poolVars, stopVars, fwdVars>>

\* StartAll called inside the construction loop: main goes on with the loop.
StartAllReturnInsideLoop ==
    /\ mainPc = "starting"
    /\ startVisited = DOMAIN components
    /\ startAllErr' = Nil
    /\ mainPc' = "construct"
    /\ mu' = [mu EXCEPT !.readers = @ \ {MainProc}]
    /\ UNCHANGED <<services, regLog, components, startVisited, startCount, started>>
    /\ UNCHANGED <<routeVars, poolVars, stopVars, fwdVars>>

\* The range loop is over: StartAll returns nil and main blocks in select {}.
StartAllReturn ==
    /\ mainPc = "starting"
    /\ startVisited = DOMAIN components
    /\ startAllErr' = Nil
    /\ mainPc' = "wait"
    /\ mu' = [mu EXCEPT !.readers = @ \ {MainProc}]
    /\ UNCHANGED <<services, regLog, components, startVisited, startCount, started>>
    /\ UNCHANGED <<routeVars, poolVars, stopVars, fwdVars>>

\* log.Fatalf on StartAll's error: the process, with every worker, ends.
MainFatal ==
    /\ mainPc = "fatal"
    /\ mainPc' = "exited"
    /\ UNCHANGED <<services, regLog, components, mu, startVisited, startCount,
                   started, startAllErr>>
    /\ UNCHANGED <<routeVars, poolVars, stopVars, fwdVars>>

Main(cfgs) ==
    \/ MainConstruct(cfgs)
    \/ MainRegister
    \/ StartAllLock
    \/ StartAllStep
    \/ StartAllReturn
    \/ MainFatal

(* ------------------------- workers (from spec.md) ----------------------- *)

\* HandlePacket's possible results (from spec.md: delivery may fail).
HandleResults == {Nil, "error"}

\* Component.Stop's possible results.
StopResults == {Nil, "error"}

\* The worker of component w (a Listener's read loop, a Forwarder's receive loop)
\* runs from the component's successful Start until its successful Stop.
WorkerRuns(w) ==
    /\ Alive
    /\ w \in started
    /\ ~(stopCount[w] > 0 /\ w \notin stopErrs)

\* The worker acquires a buffer for the next datagram.
GetBufferStep(w) ==
    /\ WorkerRuns(w)
    /\ route[w].pc = "idle"
    /\ wbuf[w] = NoBuf
    /\ \E g \in PoolGet(pool, allocated) :
         /\ pool' = g.pool
         /\ allocated' = g.allocated
         /\ wbuf' = [wbuf EXCEPT ![w] = g.b]
         /\ buflen' = [buflen EXCEPT ![g.b] =
                          GetBufferLen(g.allocated # allocated, buflen[g.b])]
         /\ reused' = (reused \/ g.allocated = allocated)
    /\ UNCHANGED <<fwdVars, mainVars, mu, routeVars, stopVars>>

\* The worker gives its buffer back once no Route call of its own uses it:
\* PutBuffer stores a pointer to the slice it is handed, whatever its length.
PutBufferStep(w) ==
    /\ Alive
    /\ route[w].pc = "idle"
    /\ wbuf[w] # NoBuf
    /\ pool' = PoolPut(pool, wbuf[w])
    /\ \E n \in PutLens : buflen' = [buflen EXCEPT ![wbuf[w]] = n]
    /\ wbuf' = [wbuf EXCEPT ![w] = NoBuf]
    /\ UNCHANGED <<fwdVars, mainVars, mu, routeVars, stopVars, allocated, reused>>

(* -------------------------------- Route -------------------------------- *)

\* The srcTag of the packets worker w hands to Route: its component's own tag
\* (what a Listener or a Forwarder puts there, from spec.md) or, Route taking any
\* packet, any tag.
SrcTags(w, own) == IF own THEN {GetTag(w)} ELSE DestTags

\* The worker calls Route with a packet (its payload is the buffer the worker
\* holds, if any) and a destTags list drawn from dests; with alone, only while
\* no other worker is inside Route.
RouteCall(w, dests, own, alone) ==
    /\ WorkerRuns(w)
    /\ route[w].pc = "idle"
    /\ alone => \A v \in Comps : route[v].pc = "idle"
    /\ \E src \in SrcTags(w, own), d \in dests :
         route' = [route EXCEPT ![w] = [IdleRoute EXCEPT !.pc = "loop",
                                                         !.src = src,
                                                         !.dest = d,
                                                         !.i = 1]]
    /\ UNCHANGED <<fwdVars, mainVars, mu, handled, poolVars, stopVars>>

\* The head of Route's loop: past the last entry Route returns; an entry equal to
\* packet.srcTag is skipped; for any other entry GetComponent takes the read lock.
RouteLoop(w) ==
    /\ Alive
    /\ route[w].pc = "loop"
    /\ LET r == route[w]
       IN IF r.i > Len(r.dest)
          THEN /\ route' = [route EXCEPT ![w] = [r EXCEPT !.pc = "done",
                                                          !.ret = RouteResult(r.failed)]]
               /\ mu' = mu
          ELSE IF RouteSkips(r.dest[r.i], r.src)
               THEN /\ route' = [route EXCEPT ![w] = [r EXCEPT !.i = @ + 1]]
                    /\ mu' = mu
               ELSE /\ CanRLock(mu)
                    /\ mu' = GetComponentRLock(mu, WorkerProc(w))
                    /\ route' = [route EXCEPT ![w] = [r EXCEPT !.pc = "locked"]]
    /\ UNCHANGED <<fwdVars, mainVars, handled, poolVars, stopVars>>

\* GetComponent reads the registry and releases the read lock; Route then either
\* logs the miss and continues or invokes HandlePacket on the component found.
RouteLookup(w) ==
    /\ Alive
    /\ route[w].pc = "locked"
    /\ LET r == route[w]
           g == GetComponent(components, r.dest[r.i])
       IN /\ mu' = GetComponentRUnlock(mu, WorkerProc(w))
          /\ IF g.exists
             THEN /\ route' = [route EXCEPT ![w] = InvokeHandlePacket(r, r.dest[r.i])]
                  /\ handled' = TRUE
             ELSE /\ route' = [route EXCEPT ![w] = RouteOnMiss(r)]
                  /\ handled' = handled
    /\ UNCHANGED <<fwdVars, mainVars, poolVars, stopVars>>

\* A HandlePacket invocation returns, with an error or without.
HandlePacketReturn(w) ==
    /\ Alive
    /\ route[w].pending > 0
    /\ \E err \in HandleResults :
         route' = [route EXCEPT ![w] =
                      IF route[w].pc = "handling"
                      THEN RouteOnReturn(route[w], err)
                      ELSE [route[w] EXCEPT !.pending = @ - 1]]
    /\ UNCHANGED <<fwdVars, mainVars, mu, handled, poolVars, stopVars>>

\* Route has returned: the worker goes on with its loop.
RouteReturn(w) ==
    /\ Alive
    /\ route[w].pc = "done"
    /\ route' = [route EXCEPT ![w] = IdleRoute]
    /\ UNCHANGED <<fwdVars, mainVars, mu, handled, poolVars, stopVars>>

Pool ==
    \E w \in Comps :
        \/ GetBufferStep(w)
        \/ PutBufferStep(w)

Worker(dests, own, alone) ==
    \E w \in Comps :
        \/ RouteCall(w, dests, own, alone)
        \/ RouteLoop(w)
        \/ RouteLookup(w)
        \/ HandlePacketReturn(w)
        \/ RouteReturn(w)

(* ------------------------------- StopAll ------------------------------- *)

\* StopAll giving up at the first Stop that fails.
StopAllReturnsOnError(err) == err # Nil

\* StopAll's lines 140-142: whether the loop ends after this Stop result.
StopAllReturnsOn(err) == FALSE

\* StopAll is called (by whoever shuts the relay down) and takes the read lock.
StopAllLock ==
    /\ Alive
    /\ stopPc = "idle"
    /\ CanRLock(mu)
    /\ stopPc' = "stopping"
    /\ mu' = [mu EXCEPT !.readers = @ \cup {StopProc}]
    /\ UNCHANGED <<fwdVars, mainVars, routeVars, poolVars, stopVisited, stopCount, stopErrs>>

\* One iteration of StopAll's range loop: Stop is called on a component not yet
\* visited and an error is only logged.
StopAllStep ==
    /\ Alive
    /\ stopPc = "stopping"
    /\ \E tag \in DOMAIN components \ stopVisited : \E err \in StopResults :
         LET c == components[tag]
         IN /\ stopVisited' = stopVisited \cup {tag}
            /\ stopCount' = [stopCount EXCEPT ![c] = @ + 1]
            /\ stopErrs' = IF err = Nil THEN stopErrs ELSE stopErrs \cup {c}
            /\ IF StopAllReturnsOn(err)
               THEN /\ stopPc' = "done"
                    /\ mu' = [mu EXCEPT !.readers = @ \ {StopProc}]
               ELSE UNCHANGED <<stopPc, mu>>
    /\ UNCHANGED <<fwdVars, mainVars, routeVars, poolVars>>

\* The range loop is over: StopAll returns (the deferred RUnlock runs).
StopAllReturn ==
    /\ Alive
    /\ stopPc = "stopping"
    /\ stopVisited = DOMAIN components
    /\ stopPc' = "done"
    /\ mu' = [mu EXCEPT !.readers = @ \ {StopProc}]
    /\ UNCHANGED <<fwdVars, mainVars, routeVars, poolVars, stopVisited, stopCount, stopErrs>>

StopAll ==
    \/ StopAllLock
    \/ StopAllStep
    \/ StopAllReturn

(* ------------------------ Forwarder (from spec.md) ---------------------- *)

\* HandlePacket appending whatever the queue holds.
EnqueueUnbounded(q, p) == Append(q, p)

\* The Forwarder's outbound queue after HandlePacket was handed payload p: the
\* payload is appended, or dropped when the queue holds QueueSize entries.
Enqueue(q, p) == IF Len(q) < QueueSize THEN Append(q, p) ELSE q

\* A retry one tick early.
RetryDelayShort(interval) == interval - 1

\* The time a Forwarder waits in Reconnecting before it dials again.
RetryDelay(interval) == interval

\* The Forwarder leaves Connected or a failed dial for Reconnecting.
Reconnecting(f) == [f EXCEPT !.state = "Reconnecting",
                             !.wait = RetryDelay(ReconnectInterval)]

\* A dial attempt begins.
Dialling(f) == [f EXCEPT !.state = "Connecting", !.since = 0, !.dialled = TRUE]

\* Start: the Forwarder dials its upstream.
ForwarderStart ==
    /\ fwd.state = "Disconnected"
    /\ fwd' = Dialling(fwd)
    /\ UNCHANGED <<mainVars, mu, routeVars, poolVars, stopVars, upstream, reader>>

\* The dial attempt in flight ends: Connected when the upstream is reachable,
\* Reconnecting otherwise.
ForwarderDialReturn ==
    /\ fwd.state = "Connecting"
    /\ fwd' = IF upstream THEN [fwd EXCEPT !.state = "Connected"] ELSE Reconnecting(fwd)
    /\ UNCHANGED <<mainVars, mu, routeVars, poolVars, stopVars, upstream, reader>>

\* An I/O error or a failed health check while Connected, the upstream being
\* unreachable.
ForwarderFail ==
    /\ fwd.state = "Connected"
    /\ ~upstream
    /\ fwd' = [Reconnecting(fwd) EXCEPT !.lost = TRUE]
    /\ UNCHANGED <<mainVars, mu, routeVars, poolVars, stopVars, upstream, reader>>

\* The wait in Reconnecting is over: the Forwarder dials again.
ForwarderRetry ==
    /\ fwd.state = "Reconnecting"
    /\ fwd.wait = 0
    /\ fwd' = Dialling(fwd)
    /\ UNCHANGED <<mainVars, mu, routeVars, poolVars, stopVars, upstream, reader>>

\* The sender takes the head of the queue and writes it upstream, while
\* Connected only.
ForwarderSend ==
    /\ fwd.state = "Connected"
    /\ fwd.queue # <<>>
    /\ fwd' = [fwd EXCEPT !.queue = Tail(@)]
    /\ UNCHANGED <<mainVars, mu, routeVars, poolVars, stopVars, upstream, reader>>

\* Stop, from any state: the connection is closed and the loops end.
ForwarderStop ==
    /\ fwd.state # "Stopped"
    /\ fwd' = [fwd EXCEPT !.state = "Stopped", !.wait = 0]
    /\ UNCHANGED <<mainVars, mu, routeVars, poolVars, stopVars, upstream, reader>>

\* The Listener's read loop has a datagram and, through Route, calls the
\* Forwarder's HandlePacket with it.
ReaderRoute ==
    /\ reader.pc = "recv"
    /\ \E p \in Payloads : reader' = [reader EXCEPT !.pc = "handling", !.pkt = p]
    /\ UNCHANGED <<mainVars, mu, routeVars, poolVars, stopVars, upstream, fwd>>

\* HandlePacket enqueues or drops the payload and returns; the read loop goes on
\* to its next datagram.
ForwarderHandlePacket ==
    /\ reader.pc = "handling"
    /\ fwd' = [fwd EXCEPT !.queue = Enqueue(@, reader.pkt)]
    /\ reader' = [reader EXCEPT !.pc = "recv",
                                !.dropped = @ \/ fwd'.queue = fwd.queue]
    /\ UNCHANGED <<mainVars, mu, routeVars, poolVars, stopVars, upstream>>

\* The upstream becomes unreachable, or reachable again.
UpstreamChange ==
    /\ upstream' = ~upstream
    /\ UNCHANGED <<mainVars, mu, routeVars, poolVars, stopVars, fwd, reader>>

\* One tick of the clock.
Tick ==
    /\ fwd.wait > 0 \/ fwd.since < ReconnectInterval
    /\ fwd' = [fwd EXCEPT !.wait = IF @ > 0 THEN @ - 1 ELSE 0,
                          !.since = IF @ < ReconnectInterval THEN @ + 1 ELSE @]
    /\ UNCHANGED <<mainVars, mu, routeVars, poolVars, stopVars, upstream, reader>>

(* ---------------------------- specifications --------------------------- *)

\* destTags lists of at most one entry.
ShortDests == {<<>>} \cup {<<t>> : t \in DestTags}

\* The relay's startup under every configuration, with the workers of the
\* components already started routing their own packets to short lists.
Next ==
    \/ Main(AllCfgs)
    \/ Worker(ShortDests, TRUE, FALSE)

Spec == Init /\ [][Next]_vars

\* The relay configured with Listeners "x" and Forwarders "y", with the workers
\* routing packets of every srcTag to every destTags list up to MaxDest, one
\* Route call at a time (Spec interleaves the Route calls of the workers, over
\* short lists).
NextRoute ==
    \/ Main(RouteCfgs)
    \/ Worker(SeqsUpTo(DestTags, MaxDest), FALSE, TRUE)

SpecRoute == Init /\ [][NextRoute]_vars

\* The relay configured with Listeners "x" and Forwarders "y", with the workers
\* acquiring and releasing buffers in every interleaving around the Route calls
\* they make, one Route call at a time.
NextPool ==
    \/ Main(RouteCfgs)
    \/ Pool
    \/ Worker(ShortDests, TRUE, TRUE)

SpecPool == Init /\ [][NextPool]_vars

\* The relay's startup under every configuration, with StopAll called at any
\* moment.
NextStop ==
    \/ Main(AllCfgs)
    \/ StopAll

SpecStop == Init /\ [][NextStop]_vars

\* The goroutine that called StopAll is scheduled as long as it can take a step.
SpecStopFair == SpecStop /\ WF_vars(StopAll)

\* The relay configured with Listeners "x" and Forwarders "y" from startup to
\* shutdown: StopAll is called at any moment while the workers of the started
\* components route their packets concurrently.
NextLife ==
    \/ Main(RouteCfgs)
    \/ Worker(ShortDests, TRUE, FALSE)
    \/ StopAll

SpecLife == Init /\ [][NextLife]_vars

\* A Forwarder, its upstream and a Listener read loop that routes to it. The
\* clock advances, and the goroutine that dials and the one that is inside
\* HandlePacket are each scheduled as long as they can take a step.
NextFwd ==
    \/ ForwarderStart
    \/ ForwarderDialReturn
    \/ ForwarderFail
    \/ ForwarderRetry
    \/ ForwarderSend
    \/ ForwarderStop
    \/ ReaderRoute
    \/ ForwarderHandlePacket
    \/ UpstreamChange
    \/ Tick

SpecFwd ==
    /\ Init
    /\ [][NextFwd]_vars
    /\ WF_vars(ForwarderDialReturn)
    /\ WF_vars(ForwarderRetry)
    /\ WF_vars(ForwarderHandlePacket)
    /\ WF_vars(Tick)

(* ------------------------------ properties ----------------------------- *)

\* The step is a Register call of main's loop returning, on a component with
\* tag RegTag, and RegErr is what Register returned.
RegisterCalled == mainPc = "register" /\ mainPc' = "construct"
RegTag == services[Len(services)].tag
RegErr == regLog'[Len(regLog')]

\* The components the registry holds.
Registered == {components[t] : t \in DOMAIN components}

\* Every registered component is filed under its own tag, so no two registered
\* components share a tag.
C1_UniqueTags ==
    /\ \A t \in DOMAIN components : GetTag(components[t]) = t
    /\ \A c, d \in Registered : GetTag(c) = GetTag(d) => c = d

\* A Register call on a tag that is present reports the duplicate and changes
\* nothing: GetComponent still returns the component registered first.
C1_DuplicateStep ==
    (RegisterCalled /\ RegTag \in DOMAIN components)
        => /\ RegErr = "dup"
           /\ components' = components
           /\ GetComponent(components', RegTag).c = components[RegTag]
           /\ components'[RegTag] < Len(services')

\* C1: in every reachable state each tag maps to at most one component, and a
\* Register call whose component's tag is already present returns an error and
\* leaves the registry exactly as it was, so the component registered first stays
\* the one GetComponent returns.
C1_DuplicateTagKeepsOriginal == []C1_UniqueTags /\ [][C1_DuplicateStep]_vars

\* C1's case: a second component with an already registered tag has been through
\* Register.
C1_Witness ==
    \E i, j \in DOMAIN regLog :
        /\ i < j
        /\ services[i].tag = services[j].tag
        /\ regLog[i] = Nil
        /\ regLog[j] = "dup"

\* C6: Register of a component with an empty tag returns an error other than the
\* duplicate-tag error and leaves the registry unchanged; Register of a component
\* with a non-empty tag that is not present succeeds, adds exactly the entry
\* tag -> component (the registry grows by one) and leaves every other entry as
\* it was.
C6_RegisterEmptyAndFresh ==
    [][RegisterCalled =>
          /\ RegTag = "" =>
                /\ RegErr = "empty"
                /\ RegErr # "dup"
                /\ components' = components
          /\ (RegTag # "" /\ RegTag \notin DOMAIN components) =>
                /\ RegErr = Nil
                /\ DOMAIN components' = DOMAIN components \cup {RegTag}
                /\ Cardinality(DOMAIN components') = Cardinality(DOMAIN components) + 1
                /\ components'[RegTag] = Len(services')
                /\ \A t \in DOMAIN components : components'[t] = components[t]]_vars

\* C6's case: Register has refused an empty tag and, after that, accepted a
\* fresh one.
C6_Witness ==
    \E i, j \in DOMAIN regLog :
        /\ i < j
        /\ regLog[i] = "empty"
        /\ regLog[j] = Nil
        /\ components[services[j].tag] = j

\* StartAll has returned an error.
StartAllFailed == startAllErr \notin {"none", Nil}

\* C7: if a component's Start returns an error during startup, the process
\* aborts before serving any traffic: at the step in which StartAll returns the
\* error, no HandlePacket has been invoked through Route.
C7_NoTrafficBeforeAbort ==
    [][(~StartAllFailed /\ StartAllFailed') => ~handled]_vars

\* What holds of the Start calls in every state.
C8_StartCalls ==
    /\ \A c \in Comps : startCount[c] <= 1
    /\ \A c \in Comps : startCount[c] = 1 => c \in Registered
    /\ mainPc = "wait" =>
          /\ startAllErr = Nil
          /\ \A c \in Registered : startCount[c] = 1 /\ c \in started
    /\ StartAllFailed =>
          /\ mainPc \in {"fatal", "exited"}
          /\ startAllErr \in DOMAIN components
          /\ startCount[components[startAllErr]] = 1
          /\ components[startAllErr] \notin started
          /\ \A c \in Comps : (startCount[c] = 1 /\ c # components[startAllErr])
                                 => c \in started

\* C8: StartAll calls Start exactly once on every registered component and
\* returns nil when every Start succeeds; when a Start fails it returns the error
\* at that first failure, calls Start on no further component, and main ends the
\* process instead of entering its wait.
C8_StartAllStopsAtFirstFailure ==
    /\ []C8_StartCalls
    /\ [][StartAllFailed =>
             (startCount' = startCount /\ mainPc' \in {"fatal", "exited"})]_vars

\* C8's case: StartAll has failed on its first component with another one
\* registered, and the process has ended.
C8_Witness ==
    /\ mainPc = "exited"
    /\ \E c \in Registered : startCount[c] = 0
    /\ \E c \in Registered : startCount[c] = 1

\* The entry is one Route dispatches worker w's packet to: it differs from
\* packet.srcTag and is registered.
Eligible(w, t) == t # route[w].src /\ t \in DOMAIN components

\* The entries of list s Route dispatches worker w's packet to, in order.
Dispatched(w, s) == SelectSeq(s, LAMBDA t : Eligible(w, t))

\* C2: whatever the packet and the destTags list, Route never invokes
\* HandlePacket on the component registered under packet.srcTag.
C2_NeverRoutesBackToSource ==
    \A w \in Comps : \A k \in DOMAIN route[w].calls :
        /\ route[w].calls[k] # route[w].src
        /\ route[w].src \in DOMAIN components
              => components[route[w].calls[k]] # components[route[w].src]

\* C2's case: Route has gone through a list that names the registered source of
\* the packet more than once.
C2_Witness ==
    \E w \in Comps :
        /\ route[w].pc = "done"
        /\ route[w].src \in DOMAIN components
        /\ Cardinality({k \in DOMAIN route[w].dest : route[w].dest[k] = route[w].src}) >= 2

\* C3: when Route returns without any destination having taken the packet, the
\* Router has given the packet's buffer back to the pool, exactly once.
C3_RouterReleasesUnclaimedBuffer ==
    \A w \in Comps :
        (route[w].pc = "done" /\ wbuf[w] # NoBuf /\ route[w].calls = <<>>)
            => pool[wbuf[w]] = 1

\* C4: a tag that is not registered or a HandlePacket that fails does not keep
\* Route from the later destinations: when Route returns, it returns nil and
\* every entry that is registered and differs from packet.srcTag has been
\* invoked.
C4_FailuresDoNotStopRoute ==
    \A w \in Comps :
        route[w].pc = "done" =>
            /\ route[w].ret = Nil
            /\ Len(route[w].calls) =
                  Cardinality({k \in DOMAIN route[w].dest : Eligible(w, route[w].dest[k])})
            /\ \A k \in DOMAIN route[w].dest :
                  Eligible(w, route[w].dest[k])
                      => \E j \in DOMAIN route[w].calls :
                            route[w].calls[j] = route[w].dest[k]

\* C4's case: Route is inside the HandlePacket of its third entry after the
\* HandlePacket of the first one failed and the second one was not registered.
C4_Witness ==
    \E w \in Comps :
        /\ route[w].pc = "handling"
        /\ route[w].i = 3
        /\ route[w].failed
        /\ Len(route[w].calls) = 2
        /\ route[w].dest[2] # route[w].src
        /\ route[w].dest[2] \notin DOMAIN components

\* C5: the HandlePacket invocations of one Route call are the entries of destTags
\* that differ from packet.srcTag and are registered, in list order and once per
\* occurrence; each has returned before the next entry is looked at, and all
\* have returned when Route returns.
C5_DispatchInOrderSynchronously ==
    \A w \in Comps :
        LET r == route[w]
        IN /\ r.pc \in {"loop", "locked"} =>
                 /\ r.calls = Dispatched(w, SubSeq(r.dest, 1, r.i - 1))
                 /\ r.pending = 0
           /\ r.pc = "handling" =>
                 /\ r.calls = Dispatched(w, SubSeq(r.dest, 1, r.i))
                 /\ r.pending = 1
           /\ r.pc = "done" =>
                 /\ r.calls = Dispatched(w, r.dest)
                 /\ r.pending = 0

\* C5's case: Route has dispatched one packet to two different components.
C5_Witness ==
    \E w \in Comps :
        /\ route[w].pc = "done"
        /\ Len(route[w].calls) = 2
        /\ route[w].calls[1] # route[w].calls[2]

\* What holds of the Stop calls in every state.
C9_StopCalls ==
    /\ \A c \in Comps : stopCount[c] <= 1
    /\ \A c \in Comps : stopCount[c] = 1 => c \in Registered
    /\ \A c \in stopErrs : stopCount[c] = 1

\* The step is StopAll's return.
StopAllReturns == stopPc = "stopping" /\ stopPc' = "done"

\* C9: StopAll calls Stop exactly once on every registered component, whichever
\* of the Stop calls fail, and it terminates (unless the process ends first).
C9_StopAllStopsEveryComponent ==
    /\ []C9_StopCalls
    /\ [][StopAllReturns =>
             \A t \in DOMAIN components : stopCount'[components[t]] = 1]_vars
    /\ (stopPc = "stopping") ~> (stopPc = "done" \/ ~Alive)

\* C9's case: StopAll has returned after a Stop that failed and a Stop that did
\* not.
C9_Witness ==
    /\ stopPc = "done"
    /\ \E c \in Registered : c \in stopErrs
    /\ \E c \in Registered : c \notin stopErrs /\ stopCount[c] = 1

\* C10: no two workers hold the same buffer, under every interleaving of their
\* GetBuffer and PutBuffer calls.
C10_NoBufferWithTwoOwners ==
    \A w, v \in Comps : (w # v /\ wbuf[w] # NoBuf) => wbuf[w] # wbuf[v]

\* C10's case: two workers hold buffers after a buffer that was given back to
\* the pool has been handed out again.
C10_Witness ==
    \E w, v \in Comps :
        /\ w # v
        /\ wbuf[w] # NoBuf
        /\ wbuf[v] # NoBuf
        /\ reused

\* C11: after any sequence of GetBuffer and PutBuffer calls, a buffer GetBuffer
\* has returned, fresh or reused, has at least config.BufferSize bytes.
C11_BufferHasConfiguredSize ==
    \A w \in Comps : wbuf[w] # NoBuf => buflen[wbuf[w]] >= BufferSize

\* The iterated entries of type listen or forward that carry a non-empty tag,
\* and the first of them that carries tag t.
KeptServices ==
    {i \in DOMAIN services :
        services[i].type \in {"listen", "forward"} /\ services[i].tag # ""}
FirstService(t) ==
    CHOOSE i \in KeptServices :
        /\ services[i].tag = t
        /\ \A j \in KeptServices : services[j].tag = t => i <= j

\* After each iteration of main's loop, and so after the loop, the registry holds
\* exactly the first kept entry of every tag; Start is called only once the loop
\* is over, only on registered components, and on each of them when StartAll
\* returns nil.
C12_Registry ==
    /\ mainPc # "register" =>
          /\ DOMAIN components = {services[i].tag : i \in KeptServices}
          /\ \A t \in DOMAIN components : components[t] = FirstService(t)
    /\ \A c \in Comps :
          startCount[c] > 0 => (c \in Registered /\ mainPc \notin {"construct", "register"})
    /\ mainPc = "wait" => \A c \in Registered : startCount[c] = 1

\* C12: a service with an unknown type, an empty tag or a tag already registered
\* is dropped and main goes on with its loop; after the loop the registry holds
\* exactly, for each non-empty tag carried by a service of type listen or
\* forward, the first such service in list order, and StartAll is run on exactly
\* those components.
C12_DroppedServicesDoNotStopStartup ==
    /\ []C12_Registry
    /\ [][Len(regLog') > Len(regLog) => mainPc' = "construct"]_vars

\* C12's case: main has dropped the first service of the list, registered the
\* second one and started it.
C12_Witness ==
    /\ mainPc = "wait"
    /\ Len(regLog) = 2
    /\ regLog[1] # Nil
    /\ regLog[2] = Nil
    /\ started = {2}

\* The step is a HandlePacket call that finds the queue full.
HandlePacketOnFullQueue ==
    reader.pc = "handling" /\ reader'.pc = "recv" /\ Len(fwd.queue) >= QueueSize

\* C13: the Forwarder's outbound queue never holds more than QueueSize entries;
\* a HandlePacket call that finds the queue full drops the packet, and no
\* HandlePacket call blocks: the read loop that called Route always gets back to
\* its next datagram.
C13_QueueBoundedAndNeverBlocks ==
    /\ [](Len(fwd.queue) <= QueueSize)
    /\ [][HandlePacketOnFullQueue => (fwd'.queue = fwd.queue /\ reader'.dropped)]_vars
    /\ [](reader.pc = "handling" => ENABLED ForwarderHandlePacket)
    /\ (reader.pc = "handling") ~> (reader.pc = "recv")

\* C13's case: a packet was dropped, the queue is full and the read loop is back
\* at its next datagram while the Forwarder is not Connected.
C13_Witness ==
    /\ reader.dropped
    /\ reader.pc = "recv"
    /\ Len(fwd.queue) = QueueSize
    /\ fwd.state = "Reconnecting"

\* The step begins a dial attempt.
DialBegins == fwd.state # "Connecting" /\ fwd'.state = "Connecting"

\* C14: a Forwarder that has lost its connection and is not stopped reaches
\* Connected again once the upstream stays reachable; a dial attempt begins no
\* sooner than ReconnectInterval after the previous one; a Stopped Forwarder
\* stays Stopped and dials no more.
C14_ReconnectsUnlessStopped ==
    /\ (<>[]upstream) =>
          [](fwd.state = "Reconnecting" => <>(fwd.state \in {"Connected", "Stopped"}))
    /\ [][(DialBegins /\ fwd.dialled) => fwd.since >= ReconnectInterval]_vars
    /\ [][fwd.state = "Stopped" => (fwd'.state = "Stopped" /\ ~DialBegins)]_vars

\* C14's case: the Forwarder is Connected again after it lost its connection.
C14_Witness ==
    /\ fwd.state = "Connected"
    /\ fwd.lost
    /\ upstream

\* The step is worker w's Route invoking HandlePacket, on component InvokedBy(w).
InvokesHandlePacket(w) == route[w].pc = "locked" /\ route'[w].pc = "handling"
InvokedBy(w) == components[route[w].dest[route[w].i]]

\* C15: Route invokes HandlePacket on a component only after the component's
\* Start has returned nil and never after its Stop has been called, whatever
\* StartAll, StopAll and the other components' workers are doing.
C15_HandlesOnlyBetweenStartAndStop ==
    [][\A w \in Comps :
          InvokesHandlePacket(w) =>
              (InvokedBy(w) \in started /\ stopCount[InvokedBy(w)] = 0)]_vars

\* main is in its startup phase: inside the construction loop.
Constructing == mainPc \in {"construct", "register"}

\* C16: every Register call of main has returned before the first Start is
\* called, and once the construction loop is over no step of StartAll, StopAll,
\* Route or GetComponent changes the registry: the only step that does is
\* Register's.
C16_RegistryFrozenAfterStartup ==
    /\ [](\A c \in Comps : startCount[c] > 0 => ~Constructing)
    /\ [][~Constructing => (components' = components /\ ~Constructing')]_vars
    /\ [][components' # components => RegisterCalled]_vars

\* C16's case: StartAll and StopAll have returned and a Route call has
\* dispatched a packet, over a registry of two components.
C16_Witness ==
    /\ mainPc = "wait"
    /\ stopPc = "done"
    /\ Cardinality(DOMAIN components) = 2
    /\ \E w \in Comps : route[w].pc = "done" /\ route[w].calls # <<>>

\* The workers that hold the read lock inside GetComponent.
LookingUp == {WorkerProc(w) : w \in {v \in Comps : route[v].pc = "locked"}}

\* The step is worker w's GetComponent taking the lock.
TakesLock(w) == route[w].pc = "loop" /\ route'[w].pc = "locked"

\* C17: outside the construction loop (no Register in progress or waiting) the
\* lock has no writer, Route's lookups take it shared, and a Route call at the
\* head of its loop can always take its next step, whoever else holds the lock:
\* other lookups, StartAll, StopAll. Register holds the lock alone, so no lookup
\* runs during an insertion.
C17_LookupsShareTheRegistry ==
    /\ [](~Constructing => ~mu.writer)
    /\ [](\A w \in Comps :
             (Alive /\ ~Constructing /\ route[w].pc = "loop") => ENABLED RouteLoop(w))
    /\ [][\A w \in Comps :
             TakesLock(w) => (~mu'.writer /\ WorkerProc(w) \in mu'.readers)]_vars
    /\ [](mu.writer => (mu.readers = {} /\ LookingUp = {} /\ mainPc = "register"))

\* C17's case: two lookups hold the lock together with StartAll and StopAll.
C17_Witness ==
    /\ {MainProc, StopProc} \subseteq mu.readers
    /\ Cardinality(LookingUp) >= 2
    /\ LookingUp \subseteq mu.readers

\* C18: a worker holds the read lock inside GetComponent only, never while the
\* HandlePacket it invoked is running; so while a HandlePacket runs (for however
\* long) the lock is held by nobody but the lookups in progress, StartAll and
\* StopAll, and another Route call at the head of its loop can take its step.
C18_NoLockDuringHandlePacket ==
    /\ \A w \in Comps : WorkerProc(w) \in mu.readers <=> route[w].pc = "locked"
    /\ \A w \in Comps : route[w].pc = "handling" => WorkerProc(w) \notin mu.readers
    /\ mu.readers \subseteq {MainProc, StopProc} \cup LookingUp
    /\ \A w, v \in Comps :
          (Alive /\ route[w].pc = "handling" /\ route[v].pc = "loop")
              => ENABLED RouteLoop(v)

\* C18's case: one worker is inside a HandlePacket while another one holds the
\* lock for its lookup.
C18_Witness ==
    \E w, v \in Comps :
        /\ route[w].pc = "handling"
        /\ route[v].pc = "locked"
        /\ WorkerProc(v) \in mu.readers
====
